---- MODULE Spec2Model ----
(***************************************************************************)
(* Model of the kairo task store (src/kairo/database.py) and of the week   *)
(* calendar it depends on (src/kairo/utils.py).                            *)
(*                                                                         *)
(* A nullable SQL column or Python Optional is modelled as a tuple: <<>>   *)
(* is NULL / None, <<v>> is the value v.  The tasks table is a function    *)
(* from row id to row.  A query returns the sequence of the ids of its     *)
(* rows, in the order of its ORDER BY.                                     *)
(***************************************************************************)
EXTENDS Integers, Sequences, FiniteSets, TLC

VARIABLES
    tasks,      \* tasks table: id -> row
    seq,        \* AUTOINCREMENT counter of the tasks table (last id handed out)
    tags,       \* tags table: name -> tag id
    tag_seq,    \* AUTOINCREMENT counter of the tags table
    task_tags,  \* task_tags table: set of <<task_id, tag_id>>
    clock,      \* the latest created_at handed out
    migrations, \* migrations table: the names of the migrations applied
    week_notnull,   \* the week and year columns of tasks are declared NOT NULL
    issued,     \* history: the ids add_task has returned for this store
    before,     \* history: the call that returned before the last one, when
                \* the caller keeps it; Idle otherwise
    inflight,   \* the add_task call of a second process that has read the
                \* maximum position and has not inserted yet; NoCall otherwise
    last        \* the call that has just returned: its name, its arguments, its
                \* result and the store as it was when the call began; Idle
                \* once the caller has taken the result

vars == <<tasks, seq, tags, tag_seq, task_tags, clock, migrations, week_notnull, issued, before, inflight, last>>

----------------------------------------------------------------------------
(* Bounds of the model *)

\* number of tasks ever added
MaxTasks == 2
\* number of parameters one update_task call passes
MaxTouched == 2
\* the weeks and years the calls name
Weeks == {10, 11}
Years == {2025}
\* the task ids the calls name: every id handed out and one never handed out
Ids == 1..(MaxTasks + 1)

----------------------------------------------------------------------------
(* Values *)

NULL == <<>>
Some(v) == <<v>>
Val(x) == x[1]
Nullable(S) == {NULL} \cup {Some(v) : v \in S}

OPEN == "open"
COMPLETED == "completed"

\* get_current_week(): (year, week) of the system clock
get_current_week == <<2025, 10>>

----------------------------------------------------------------------------
(* The week calendar.  A date is its proleptic Gregorian ordinal, the day   *)
(* number datetime counts from 1 January of year 1; a timedelta of whole    *)
(* days is an integer.                                                      *)

\* the years the week calls name
CalendarYears == 2015..2027

\* number of days before 1 January of year
days_before_year(year) ==
    LET y == year - 1 IN y * 365 + (y \div 4) - (y \div 100) + (y \div 400)

\* datetime(year, 1, day)
january(year, day) == days_before_year(year) + day

\* date.weekday(): Monday is 0
weekday(date) == (date + 6) % 7

\* the year of a date
year_of(date) ==
    CHOOSE y \in (date \div 366)..((date \div 365) + 1) :
        days_before_year(y) < date /\ date <= days_before_year(y + 1)

\* the Monday of ISO week 1 of year: the week of the year's first Thursday
isoweek1monday(year) ==
    LET firstday == january(year, 1)
        firstweekday == weekday(firstday)
        week1monday == firstday - firstweekday
    IN IF firstweekday > 3 THEN week1monday + 7 ELSE week1monday

\* date.isocalendar(): <<ISO year, ISO week>>
isocalendar(date) ==
    LET year == year_of(date)
        week == (date - isoweek1monday(year)) \div 7
    IN IF date < isoweek1monday(year)
       THEN <<year - 1, ((date - isoweek1monday(year - 1)) \div 7) + 1>>
       ELSE IF week >= 52 /\ date >= isoweek1monday(year + 1)
            THEN <<year + 1, 1>>
            ELSE <<year, week + 1>>

\* Faulty variant of week_1_start: the Monday of the week of 1 January
week_1_start_jan1(year) == january(year, 1) - weekday(january(year, 1))

\* get_week_range: jan4 - timedelta(days=jan4.weekday())
week_1_start(year) == january(year, 4) - weekday(january(year, 4))

\* get_week_range: the dates of week_start and of week_end
get_week_range(year, week) ==
    LET week_start == week_1_start(year) + 7 * (week - 1)
    IN <<week_start, week_start + 6>>

\* get_next_week: the ISO week of week_end + 1 day
get_next_week(year, week) == isocalendar(get_week_range(year, week)[2] + 1)

\* action_prev_week: the ISO week of week_start - 7 days
action_prev_week(year, week) == isocalendar(get_week_range(year, week)[1] - 7)

\* the ISO weeks of a year: 28 December is always in the last one
weeks_in_year(year) == isocalendar(days_before_year(year + 1) - 3)[2]

----------------------------------------------------------------------------
(* SQL evaluation *)

RECURSIVE SetMax(_)
SetMax(S) == LET x == CHOOSE y \in S : TRUE
             IN IF S = {x} THEN x
                ELSE LET m == SetMax(S \ {x}) IN IF x > m THEN x ELSE m

RECURSIVE SumOver(_, _)
SumOver(f, S) == IF S = {} THEN 0
                 ELSE LET x == CHOOSE y \in S : TRUE
                      IN f[x] + SumOver(f, S \ {x})

\* WHERE week = ? AND year = ?  (a NULL column equals no parameter)
InBucket(row, week, year) == row.week = Some(week) /\ row.year = Some(year)

\* WHERE week IS NULL AND year IS NULL
InInbox(row) == row.week = NULL /\ row.year = NULL

\* SELECT MAX(position) over the rows ids: NULL positions are skipped, the
\* result is NULL when no row has a position
MaxPosition(ids) ==
    LET ps == {Val(tasks[i].position) : i \in {j \in ids : tasks[j].position # NULL}}
    IN IF ps = {} THEN NULL ELSE Some(SetMax(ps))

\* Python's "x or 0" on an Optional[int]
OrZero(x) == IF x = NULL \/ x = Some(0) THEN 0 ELSE Val(x)

\* ORDER BY position ASC, created_at ASC: a NULL position sorts first; rows
\* of equal position and created_at come in rowid order
RowBefore(i, j) ==
    LET pi == tasks[i].position
        pj == tasks[j].position
    IN \/ pi = NULL /\ pj # NULL
       \/ pi # NULL /\ pj # NULL /\ Val(pi) < Val(pj)
       \/ /\ pi = pj
          /\ \/ tasks[i].created_at < tasks[j].created_at
             \/ tasks[i].created_at = tasks[j].created_at /\ i < j

RECURSIVE OrderBy(_)
OrderBy(ids) ==
    IF ids = {} THEN <<>>
    ELSE LET first == CHOOSE i \in ids : \A j \in ids \ {i} : RowBefore(i, j)
         IN <<first>> \o OrderBy(ids \ {first})

----------------------------------------------------------------------------
(* Tags *)

\* the three tag tables as one value
TagState == [tags |-> tags, tag_seq |-> tag_seq, task_tags |-> task_tags]

\* _get_or_create_tag on the tag tables st: the tables afterwards and the id
get_or_create_tag(st, tag_name) ==
    IF tag_name \in DOMAIN st.tags
    THEN [st |-> st, id |-> st.tags[tag_name]]
    ELSE [st |-> [st EXCEPT !.tags = [n \in DOMAIN st.tags \cup {tag_name} |->
                                         IF n = tag_name THEN st.tag_seq + 1
                                         ELSE st.tags[n]],
                            !.tag_seq = st.tag_seq + 1],
          id |-> st.tag_seq + 1]

\* _add_tag_to_task: INSERT OR IGNORE INTO task_tags
add_tag_to_task(st, task_id, tag_name) ==
    LET r == get_or_create_tag(st, tag_name)
    IN [r.st EXCEPT !.task_tags = @ \cup {<<task_id, r.id>>}]

\* for tag_name in tags: self._add_tag_to_task(task_id, tag_name)
RECURSIVE AddTags(_, _, _)
AddTags(st, task_id, names) ==
    IF names = <<>> THEN st
    ELSE AddTags(add_tag_to_task(st, task_id, Head(names)), task_id, Tail(names))

\* Python's None as an element of a list of tag names
NoneTag == "<None>"

\* the loop over names raises: INSERT INTO tags (name) VALUES (NULL) fails, the
\* name column being declared NOT NULL
tags_raise(names) == \E k \in 1..Len(names) : names[k] = NoneTag

\* the names the loop has attached when it raises, all names when it does not
tags_attached(names) ==
    IF tags_raise(names)
    THEN SubSeq(names, 1, (CHOOSE k \in 1..Len(names) :
                              /\ names[k] = NoneTag
                              /\ \A j \in 1..(k - 1) : names[j] # NoneTag) - 1)
    ELSE names

\* the names _get_task_tags selects: tags JOIN task_tags WHERE task_id = ?
TaskTagSet(task_id) == {n \in DOMAIN tags : <<task_id, tags[n]>> \in task_tags}

----------------------------------------------------------------------------
(* Calls and their results *)

Idle == [op |-> "idle"]

NoCall == [op |-> "none"]

\* the store as a call finds it
Store == [tasks |-> tasks, seq |-> seq, tags |-> tags, tag_seq |-> tag_seq,
          task_tags |-> task_tags, migrations |-> migrations,
          week_notnull |-> week_notnull, issued |-> issued]

\* what a returning call leaves in last
Returned(op, args, ret) == [op |-> op, args |-> args, ret |-> ret, pre |-> Store]

\* what a call that raises the exception exc leaves in last
Raised(op, args, exc) == [op |-> op, args |-> args, exc |-> exc, pre |-> Store]

\* Initial state: a store just created by Database() on a fresh file.  The
\* position backfill has run over no task and has recorded its marker.
Init ==
    /\ tasks = <<>>
    /\ seq = 0
    /\ tags = <<>>
    /\ tag_seq = 0
    /\ task_tags = {}
    /\ clock = 0
    /\ migrations = {"assign_positions"}
    /\ week_notnull = FALSE
    /\ issued = {}
    /\ before = Idle
    /\ inflight = NoCall
    /\ last = Idle

\* datetime.now(): a reading is later than every created_at stored so far
now == clock + 1

----------------------------------------------------------------------------
(* Database(): _create_tables and its migrations *)

\* Recreating tasks without NOT NULL on week and year: every row is copied
\* with position 0
tasks_new(T) == [i \in DOMAIN T |-> [T[i] EXCEPT !.position = Some(0)]]

\* Faulty variant of migration_done: the marker is not looked at
migration_done_never == FALSE

\* SELECT name FROM migrations WHERE name = 'assign_positions'
migration_done == "assign_positions" \in migrations

\* SELECT DISTINCT week, year FROM tasks
week_year_groups(T) == {[week |-> T[i].week, year |-> T[i].year] : i \in DOMAIN T}

\* the ids the backfill selects for a group: the bucket when week and year
\* are both non-null, the rows with week and year both NULL otherwise
group_task_ids(T, g) ==
    IF g.week # NULL /\ g.year # NULL
    THEN {i \in DOMAIN T : T[i].week = g.week /\ T[i].year = g.year}
    ELSE {i \in DOMAIN T : T[i].week = NULL /\ T[i].year = NULL}

\* Faulty variant of created_before: ORDER BY id
created_before_by_id(T, j, i) == j <= i

\* ORDER BY created_at ASC: row j comes no later than row i (rows of equal
\* created_at come in rowid order)
created_before(T, j, i) ==
    \/ T[j].created_at < T[i].created_at
    \/ T[j].created_at = T[i].created_at /\ j <= i

\* enumerate(task_ids, start=1): the index of row i among the ids S
backfill_index(T, S, i) == Cardinality({j \in S : created_before(T, j, i)})

\* the tasks table after UPDATE tasks SET position = idx for every row of
\* every group.  The groups select disjoint sets of rows, or the same set.
assign_positions(T) ==
    [i \in DOMAIN T |->
        LET G == {g \in week_year_groups(T) : i \in group_task_ids(T, g)}
        IN IF G = {} THEN T[i]
           ELSE LET S == group_task_ids(T, CHOOSE g \in G : TRUE)
                IN [T[i] EXCEPT !.position = Some(backfill_index(T, S, i))]]

\* _create_tables on an existing file.  Inserting the copied rows with
\* their ids into the new AUTOINCREMENT table leaves its counter at the
\* largest id copied.
create_tables ==
    LET T0 == IF week_notnull THEN tasks_new(tasks) ELSE tasks
    IN /\ tasks' = IF migration_done THEN T0 ELSE assign_positions(T0)
       /\ seq' = IF week_notnull
                 THEN (IF DOMAIN tasks = {} THEN 0 ELSE SetMax(DOMAIN tasks))
                 ELSE seq
       /\ week_notnull' = FALSE
       /\ migrations' = migrations \cup {"assign_positions"}
       /\ last' = Returned("Database", <<>>, "db")
       /\ UNCHANGED <<tags, tag_seq, task_tags, clock, issued, before, inflight>>

----------------------------------------------------------------------------
(* add_task *)

\* the (week, year) add_task resolves from its arguments
add_task_bucket(week, year, schedule) ==
    IF schedule
    THEN IF week = NULL \/ year = NULL
         THEN [week |-> Some(get_current_week[2]), year |-> Some(get_current_week[1])]
         ELSE [week |-> week, year |-> year]
    ELSE [week |-> NULL, year |-> NULL]

\* Faulty variant of add_task_peers: MAX(position) over the whole table
add_task_peers_any_bucket(b) == DOMAIN tasks

\* the rows whose MAX(position) add_task selects for the resolved bucket b
add_task_peers(b) ==
    IF b.week # NULL /\ b.year # NULL
    THEN {i \in DOMAIN tasks : InBucket(tasks[i], Val(b.week), Val(b.year))}
    ELSE {i \in DOMAIN tasks : InInbox(tasks[i])}

\* Faulty variant of add_task_position: always the first position
add_task_position_first(b) == 1

\* Faulty variant of add_task_position: without "+ 1"
add_task_position_max(b) == OrZero(MaxPosition(add_task_peers(b)))

\* position = (max_position or 0) + 1
add_task_position(b) == OrZero(MaxPosition(add_task_peers(b))) + 1

add_task(title, description, week, year, tgs, estimate, project, schedule) ==
    LET b == add_task_bucket(week, year, schedule)
        position == add_task_position(b)
        task_id == seq + 1
        row == [title |-> title, description |-> description, status |-> OPEN,
                week |-> b.week, year |-> b.year, created_at |-> now,
                completed_at |-> NULL, estimate |-> estimate, project |-> project,
                position |-> Some(position)]
        st == AddTags(TagState, task_id, tags_attached(tgs))
        args == [title |-> title, description |-> description, week |-> week,
                 year |-> year, tags |-> tgs, estimate |-> estimate,
                 project |-> project, schedule |-> schedule]
    IN /\ seq < MaxTasks
       /\ tasks' = [i \in DOMAIN tasks \cup {task_id} |->
                       IF i = task_id THEN row ELSE tasks[i]]
       /\ seq' = task_id
       /\ tags' = st.tags
       /\ tag_seq' = st.tag_seq
       /\ task_tags' = st.task_tags
       /\ clock' = now
       /\ issued' = IF tags_raise(tgs) THEN issued ELSE issued \cup {task_id}
       /\ UNCHANGED <<migrations, week_notnull, before, inflight>>
       /\ last' = IF tags_raise(tgs) THEN Raised("add_task", args, "IntegrityError")
                  ELSE Returned("add_task", args,
                   [id |-> task_id, title |-> title, description |-> description,
                    status |-> OPEN, week |-> b.week, year |-> b.year,
                    created_at |-> now, completed_at |-> NULL, tags |-> tgs,
                    estimate |-> estimate, project |-> project,
                    position |-> position])

\* add_task in a second process, up to "position = (max_position or 0) + 1":
\* the bucket is resolved, created_at is taken and MAX(position) is read.  A
\* SELECT holds no lock once its row is fetched.
add_task_read(title, description, week, year, tgs, estimate, project, schedule) ==
    LET b == add_task_bucket(week, year, schedule)
    IN /\ inflight = NoCall
       /\ seq < MaxTasks
       /\ inflight' = [op |-> "add_task",
                       args |-> [title |-> title, description |-> description,
                                 week |-> week, year |-> year, tags |-> tgs,
                                 estimate |-> estimate, project |-> project,
                                 schedule |-> schedule],
                       week |-> b.week, year |-> b.year, created_at |-> now,
                       position |-> add_task_position(b), pre |-> Store]
       /\ clock' = now
       /\ UNCHANGED <<tasks, seq, tags, tag_seq, task_tags, migrations, week_notnull,
                      issued, before, last>>

\* add_task in the second process, from the INSERT to the return: the row is
\* inserted with the position computed from the earlier read, the tags are
\* attached and the transaction is committed.  pre is the store as the call
\* found it when it read.
add_task_insert ==
    LET c == inflight
        task_id == seq + 1
        row == [title |-> c.args.title, description |-> c.args.description,
                status |-> OPEN, week |-> c.week, year |-> c.year,
                created_at |-> c.created_at, completed_at |-> NULL,
                estimate |-> c.args.estimate, project |-> c.args.project,
                position |-> Some(c.position)]
        st == AddTags(TagState, task_id, tags_attached(c.args.tags))
    IN /\ inflight # NoCall
       /\ seq < MaxTasks
       /\ tasks' = [i \in DOMAIN tasks \cup {task_id} |->
                       IF i = task_id THEN row ELSE tasks[i]]
       /\ seq' = task_id
       /\ tags' = st.tags
       /\ tag_seq' = st.tag_seq
       /\ task_tags' = st.task_tags
       /\ issued' = IF tags_raise(c.args.tags) THEN issued ELSE issued \cup {task_id}
       /\ inflight' = NoCall
       /\ last' = IF tags_raise(c.args.tags)
                  THEN [op |-> "add_task", args |-> c.args, exc |-> "IntegrityError",
                        pre |-> c.pre]
                  ELSE [op |-> "add_task", args |-> c.args, pre |-> c.pre,
                        ret |-> [id |-> task_id, title |-> c.args.title,
                                 description |-> c.args.description, status |-> OPEN,
                                 week |-> c.week, year |-> c.year,
                                 created_at |-> c.created_at, completed_at |-> NULL,
                                 tags |-> c.args.tags, estimate |-> c.args.estimate,
                                 project |-> c.args.project, position |-> c.position]]
       /\ UNCHANGED <<clock, migrations, week_notnull, before>>

----------------------------------------------------------------------------
(* complete_task, reopen_task, delete_task *)

\* Faulty variant of complete_task_match: WHERE id = ? only
complete_task_match_any_status(task_id) == task_id \in DOMAIN tasks

\* UPDATE tasks ... WHERE id = ? AND status = 'open'
complete_task_match(task_id) ==
    task_id \in DOMAIN tasks /\ tasks[task_id].status = OPEN

\* SET status = 'completed', completed_at = ?
completed_row(row, completed_at) ==
    [row EXCEPT !.status = COMPLETED, !.completed_at = Some(completed_at)]

complete_task(task_id) ==
    LET hit == complete_task_match(task_id)
    IN /\ tasks' = IF hit THEN [tasks EXCEPT ![task_id] = completed_row(@, now)]
                   ELSE tasks
       /\ last' = Returned("complete_task", [task_id |-> task_id], hit)
       /\ UNCHANGED <<seq, tags, tag_seq, task_tags, clock, migrations, week_notnull, issued,
                     before, inflight>>

\* Faulty variant of reopen_task_match: WHERE id = ? only
reopen_task_match_any_status(task_id) == task_id \in DOMAIN tasks

\* UPDATE tasks ... WHERE id = ? AND status = 'completed'
reopen_task_match(task_id) ==
    task_id \in DOMAIN tasks /\ tasks[task_id].status = COMPLETED

\* Faulty variant of reopened_row: SET status = 'open' only
reopened_row_keeps_stamp(row) == [row EXCEPT !.status = OPEN]

\* SET status = 'open', completed_at = NULL
reopened_row(row) == [row EXCEPT !.status = OPEN, !.completed_at = NULL]

reopen_task(task_id) ==
    LET hit == reopen_task_match(task_id)
    IN /\ tasks' = IF hit THEN [tasks EXCEPT ![task_id] = reopened_row(@)]
                   ELSE tasks
       /\ last' = Returned("reopen_task", [task_id |-> task_id], hit)
       /\ UNCHANGED <<seq, tags, tag_seq, task_tags, clock, migrations, week_notnull, issued,
                     before, inflight>>

\* DELETE FROM tasks WHERE id = ?.  The connection never turns foreign keys
\* on, so the ON DELETE CASCADE of task_tags does not act.
delete_task(task_id) ==
    LET hit == task_id \in DOMAIN tasks
    IN /\ tasks' = [i \in DOMAIN tasks \ {task_id} |-> tasks[i]]
       /\ last' = Returned("delete_task", [task_id |-> task_id], hit)
       /\ UNCHANGED <<seq, tags, tag_seq, task_tags, clock, migrations, week_notnull, issued,
                     before, inflight>>

----------------------------------------------------------------------------
(* update_task *)

Fields == {"title", "description", "tags", "estimate", "project", "position",
           "week", "year"}

\* Argument records of update_task.  a.touched is the set of parameters that
\* are not _UNSET; a parameter outside it carries a placeholder.  Every
\* parameter is Optional: title and description too may be passed as None.  The records
\* touch at most MaxTouched parameters, all of them in fields, with values
\* from the sets of V.
UpdateArgs(fields, V) ==
    {a \in [touched : SUBSET fields, title : V.titles, description : V.descriptions,
            tags : V.taglists, estimate : V.estimates, project : V.projects,
            position : V.positions, week : V.weeks, year : V.years] :
        /\ Cardinality(a.touched) <= MaxTouched
        /\ "title" \notin a.touched => a.title = NULL
        /\ "description" \notin a.touched => a.description = NULL
        /\ "tags" \notin a.touched => a.tags = <<>>
        /\ "estimate" \notin a.touched => a.estimate = NULL
        /\ "project" \notin a.touched => a.project = NULL
        /\ "position" \notin a.touched => a.position = NULL
        /\ "week" \notin a.touched => a.week = NULL
        /\ "year" \notin a.touched => a.year = NULL}

\* UPDATE tasks SET <the touched columns> on one row
update_row(row, a) ==
    [title |-> IF "title" \in a.touched THEN Val(a.title) ELSE row.title,
     description |-> IF "description" \in a.touched THEN Val(a.description)
                     ELSE row.description,
     status |-> row.status,
     week |-> IF "week" \in a.touched THEN a.week ELSE row.week,
     year |-> IF "year" \in a.touched THEN a.year ELSE row.year,
     created_at |-> row.created_at,
     completed_at |-> row.completed_at,
     estimate |-> IF "estimate" \in a.touched THEN a.estimate ELSE row.estimate,
     project |-> IF "project" \in a.touched THEN a.project ELSE row.project,
     position |-> IF "position" \in a.touched THEN a.position ELSE row.position]

\* cursor.rowcount > 0 or tags is not _UNSET.  The rowcount is that of the
\* cursor's last statement: the DELETE of the tags when tags are passed, else
\* the UPDATE, else -1 (no statement executed).
update_task_ret(task_id, a) ==
    \/ "tags" \in a.touched
    \/ (a.touched # {} /\ task_id \in DOMAIN tasks)

\* the UPDATE of update_task fails: it would store NULL in the title or the
\* description of a row, and both columns are declared NOT NULL
update_task_not_null_fails(task_id, a) ==
    /\ task_id \in DOMAIN tasks
    /\ \/ "title" \in a.touched /\ a.title = NULL
       \/ "description" \in a.touched /\ a.description = NULL

\* Faulty variant of update_task_tags_removed: the old associations stay
update_task_tags_kept(st, task_id) == st

\* DELETE FROM task_tags WHERE task_id = ?
update_task_tags_removed(st, task_id) ==
    [st EXCEPT !.task_tags = {tt \in @ : tt[1] # task_id}]

\* A failing UPDATE writes nothing and raises sqlite3.IntegrityError out of
\* update_task, before the tags are looked at.  A failing INSERT of a tag
\* raises it after the UPDATE, the DELETE and the earlier tags are written,
\* and nothing rolls them back: the connection shows them to the calls that
\* follow and the next commit makes them durable.
update_task(task_id, a) ==
    LET st0 == update_task_tags_removed(TagState, task_id)
        st == IF "tags" \in a.touched
              THEN AddTags(st0, task_id, tags_attached(a.tags))
              ELSE TagState
    IN IF update_task_not_null_fails(task_id, a)
       THEN /\ last' = Raised("update_task", [task_id |-> task_id, a |-> a],
                              "IntegrityError")
            /\ UNCHANGED <<tasks, seq, tags, tag_seq, task_tags, clock,
                           migrations, week_notnull, issued,
                     before, inflight>>
       ELSE /\ tasks' = IF a.touched \ {"tags"} # {} /\ task_id \in DOMAIN tasks
                        THEN [tasks EXCEPT ![task_id] = update_row(@, a)]
                        ELSE tasks
            /\ tags' = st.tags
            /\ tag_seq' = st.tag_seq
            /\ task_tags' = st.task_tags
            /\ last' = IF "tags" \in a.touched /\ tags_raise(a.tags)
                       THEN Raised("update_task", [task_id |-> task_id, a |-> a],
                                   "IntegrityError")
                       ELSE Returned("update_task", [task_id |-> task_id, a |-> a],
                                     update_task_ret(task_id, a))
            /\ UNCHANGED <<seq, clock, migrations, week_notnull, issued,
                     before, inflight>>

----------------------------------------------------------------------------
(* rollover_tasks, rollback_tasks *)

\* Faulty variant of rollover_match: WHERE week = ? AND year = ? only
rollover_match_any_status(row, from_year, from_week) ==
    InBucket(row, from_week, from_year)

\* rollover_tasks: WHERE week = ? AND year = ? AND status = 'open'
rollover_match(row, from_year, from_week) ==
    InBucket(row, from_week, from_year) /\ row.status = OPEN

rollover_tasks(from_year, from_week, to_year, to_week) ==
    LET hit == {i \in DOMAIN tasks : rollover_match(tasks[i], from_year, from_week)}
    IN /\ tasks' = [i \in DOMAIN tasks |->
                       IF i \in hit
                       THEN [tasks[i] EXCEPT !.week = Some(to_week),
                                             !.year = Some(to_year)]
                       ELSE tasks[i]]
       /\ last' = Returned("rollover_tasks",
                           [from_year |-> from_year, from_week |-> from_week,
                            to_year |-> to_year, to_week |-> to_week],
                           Cardinality(hit))
       /\ UNCHANGED <<seq, tags, tag_seq, task_tags, clock, migrations, week_notnull, issued,
                     before, inflight>>

\* Faulty variant of rollback_match: WHERE week = ? AND year = ? only
rollback_match_any_status(row, from_year, from_week) ==
    InBucket(row, from_week, from_year)

\* Faulty variant of rollback_match: WHERE status = 'open' only
rollback_match_any_bucket(row, from_year, from_week) ==
    row.status = OPEN

\* rollback_tasks: WHERE week = ? AND year = ? AND status = 'open'
rollback_match(row, from_year, from_week) ==
    InBucket(row, from_week, from_year) /\ row.status = OPEN

rollback_tasks(from_year, from_week, to_year, to_week) ==
    LET hit == {i \in DOMAIN tasks : rollback_match(tasks[i], from_year, from_week)}
    IN /\ tasks' = [i \in DOMAIN tasks |->
                       IF i \in hit
                       THEN [tasks[i] EXCEPT !.week = Some(to_week),
                                             !.year = Some(to_year)]
                       ELSE tasks[i]]
       /\ last' = Returned("rollback_tasks",
                           [from_year |-> from_year, from_week |-> from_week,
                            to_year |-> to_year, to_week |-> to_week],
                           Cardinality(hit))
       /\ UNCHANGED <<seq, tags, tag_seq, task_tags, clock, migrations, week_notnull, issued,
                     before, inflight>>

----------------------------------------------------------------------------
(* swap_task_positions *)

\* Faulty variant of swap_task_positions: the second UPDATE writes the
\* position the first task has after the first UPDATE
swap_task_positions_lost_position(task_id1, task_id2) ==
    LET ok == task_id1 \in DOMAIN tasks /\ task_id2 \in DOMAIN tasks
    IN /\ tasks' = IF ok
                   THEN [tasks EXCEPT ![task_id1].position = tasks[task_id2].position]
                   ELSE tasks
       /\ last' = Returned("swap_task_positions",
                           [task_id1 |-> task_id1, task_id2 |-> task_id2], ok)
       /\ UNCHANGED <<seq, tags, tag_seq, task_tags, clock, migrations, week_notnull, issued,
                     before, inflight>>

swap_task_positions(task_id1, task_id2) ==
    LET ok == task_id1 \in DOMAIN tasks /\ task_id2 \in DOMAIN tasks
    IN /\ tasks' = IF ok
                   THEN LET pos1 == tasks[task_id1].position
                            pos2 == tasks[task_id2].position
                            t1 == [tasks EXCEPT ![task_id1].position = pos2]
                        IN [t1 EXCEPT ![task_id2].position = pos1]
                   ELSE tasks
       /\ last' = Returned("swap_task_positions",
                           [task_id1 |-> task_id1, task_id2 |-> task_id2], ok)
       /\ UNCHANGED <<seq, tags, tag_seq, task_tags, clock, migrations, week_notnull, issued,
                     before, inflight>>

----------------------------------------------------------------------------
(* Queries.  week, year and status are Optional arguments. *)

\* if week is None or year is None: year, week = get_current_week()
query_bucket(week, year) ==
    IF week = NULL \/ year = NULL
    THEN [week |-> get_current_week[2], year |-> get_current_week[1]]
    ELSE [week |-> Val(week), year |-> Val(year)]

\* Faulty variant of list_tasks_where: without "week IS NOT NULL AND year
\* IS NOT NULL"
list_tasks_where_with_inbox(row, week, year, status, show_all) ==
    /\ ~show_all => LET b == query_bucket(week, year) IN InBucket(row, b.week, b.year)
    /\ status # NULL => row.status = Val(status)

\* the WHERE clause of list_tasks
list_tasks_where(row, week, year, status, show_all) ==
    /\ row.week # NULL /\ row.year # NULL
    /\ ~show_all => LET b == query_bucket(week, year) IN InBucket(row, b.week, b.year)
    /\ status # NULL => row.status = Val(status)

list_tasks(week, year, status, show_all) ==
    OrderBy({i \in DOMAIN tasks : list_tasks_where(tasks[i], week, year, status, show_all)})

\* the WHERE clause of list_inbox_tasks
list_inbox_tasks_where(row, status) ==
    /\ row.week = NULL /\ row.year = NULL
    /\ status # NULL => row.status = Val(status)

list_inbox_tasks(status) ==
    OrderBy({i \in DOMAIN tasks : list_inbox_tasks_where(tasks[i], status)})

\* list_tasks_by_tag: tasks JOIN task_tags JOIN tags WHERE tags.name = ? ...
list_tasks_by_tag(tag, week, year, status, show_all) ==
    OrderBy({i \in DOMAIN tasks :
        /\ tag \in TaskTagSet(i)
        /\ ~show_all => LET b == query_bucket(week, year)
                        IN InBucket(tasks[i], b.week, b.year)
        /\ status # NULL => tasks[i].status = Val(status)})

\* list_tasks_by_project: WHERE project = ? ...
list_tasks_by_project(project, week, year, status, show_all) ==
    OrderBy({i \in DOMAIN tasks :
        /\ tasks[i].project = Some(project)
        /\ ~show_all => LET b == query_bucket(week, year)
                        IN InBucket(tasks[i], b.week, b.year)
        /\ status # NULL => tasks[i].status = Val(status)})

\* get_week_stats.  COUNT(*) of no rows is 0 and SUM(...) of no rows is NULL;
\* only the three estimate sums are passed through "or 0".
get_week_stats(year, week) ==
    LET rows == {i \in DOMAIN tasks : InBucket(tasks[i], week, year)}
        done == {i \in rows : tasks[i].status = COMPLETED}
        open == {i \in rows : tasks[i].status = OPEN}
        est == [i \in rows |-> IF tasks[i].estimate # NULL
                               THEN Val(tasks[i].estimate) ELSE 0]
        Sum(S) == IF rows = {} THEN NULL ELSE Some(SumOver(est, S))
        Count(S) == IF rows = {} THEN NULL ELSE Some(Cardinality(S))
    IN [total |-> Cardinality(rows),
        completed |-> Count(done),
        open |-> Count(open),
        total_estimate |-> OrZero(Sum(rows)),
        completed_estimate |-> OrZero(Sum(done)),
        open_estimate |-> OrZero(Sum(open))]

\* the tag names of the model in ascending lexicographic order
TagNames == <<"urgent", "work">>

\* _get_task_tags: SELECT tags.name ... WHERE task_tags.task_id = ? ORDER BY
\* tags.name
get_task_tags(task_id) ==
    LET Attached(n) == n \in TaskTagSet(task_id) IN SelectSeq(TagNames, Attached)

\* _row_to_task: the Task object of a row.  A falsy estimate (NULL, 0) and a
\* falsy project (NULL, '') read as None, a falsy position as 0;
\* fromisoformat gives back the datetime isoformat was given.
row_to_task(task_id) ==
    LET row == tasks[task_id]
    IN [id |-> task_id, title |-> row.title, description |-> row.description,
        status |-> row.status, week |-> row.week, year |-> row.year,
        created_at |-> row.created_at, completed_at |-> row.completed_at,
        tags |-> get_task_tags(task_id),
        estimate |-> IF row.estimate = Some(0) THEN NULL ELSE row.estimate,
        project |-> IF row.project = Some("") THEN NULL ELSE row.project,
        position |-> OrZero(row.position)]

\* get_task: None when no row has the id
get_task(task_id) ==
    IF task_id \in DOMAIN tasks THEN Some(row_to_task(task_id)) ELSE NULL

----------------------------------------------------------------------------
(* The store as a state machine.  The store is single-threaded and          *)
(* synchronous: a call runs to completion and returns before the next one  *)
(* begins.  The arguments of the calls are drawn from the sets of an input *)
(* record I.                                                               *)

AddTask(I) ==
    \E title \in I.titles, description \in I.descriptions, week \in I.weeks,
       year \in I.years, tgs \in I.taglists, estimate \in I.estimates,
       project \in I.projects, schedule \in I.schedules :
        /\ last = Idle
        /\ add_task(title, description, week, year, tgs, estimate, project, schedule)

CompleteTask ==
    \E task_id \in Ids : last = Idle /\ complete_task(task_id)

ReopenTask ==
    \E task_id \in Ids : last = Idle /\ reopen_task(task_id)

DeleteTask ==
    \E task_id \in Ids : last = Idle /\ delete_task(task_id)

UpdateTask(I) ==
    \E task_id \in I.ids, a \in I.updates : last = Idle /\ update_task(task_id, a)

RolloverTasks(I) ==
    \E m \in I.moves : last = Idle /\ rollover_tasks(m[1], m[2], m[3], m[4])

RollbackTasks(I) ==
    \E m \in I.moves : last = Idle /\ rollback_tasks(m[1], m[2], m[3], m[4])

SwapTaskPositions ==
    \E task_id1 \in Ids, task_id2 \in Ids :
        last = Idle /\ swap_task_positions(task_id1, task_id2)

\* the caller takes the result of the call
Return ==
    /\ last # Idle
    /\ last' = Idle
    /\ UNCHANGED <<tasks, seq, tags, tag_seq, task_tags, clock, migrations, week_notnull, issued,
                     before, inflight>>

\* Scheduling inputs: every week, year and position argument, no tags
SchedInputs ==
    [titles |-> {"t"}, descriptions |-> {""}, weeks |-> Nullable(Weeks),
     years |-> Nullable(Years), taglists |-> {<<>>}, estimates |-> {NULL},
     projects |-> {NULL}, schedules |-> BOOLEAN,
     updates |-> UpdateArgs({"position", "week", "year"},
                    [titles |-> {NULL}, descriptions |-> {NULL}, taglists |-> {<<>>},
                     estimates |-> {NULL}, projects |-> {NULL},
                     positions |-> Nullable({0}), weeks |-> Nullable(Weeks),
                     years |-> Nullable(Years)]),
     moves |-> Years \X Weeks \X Years \X Weeks, ids |-> Ids]

Next ==
    \/ AddTask(SchedInputs)
    \/ CompleteTask
    \/ ReopenTask
    \/ DeleteTask
    \/ UpdateTask(SchedInputs)
    \/ RolloverTasks(SchedInputs)
    \/ RollbackTasks(SchedInputs)
    \/ SwapTaskPositions
    \/ Return

Spec == Init /\ [][Next]_vars

\* Filtering inputs: tags and projects on tasks of the current week, of the
\* week after it and of the Inbox
FilterInputs ==
    [titles |-> {"t"}, descriptions |-> {""}, weeks |-> {NULL},
     years |-> {NULL}, taglists |-> {<<>>, <<"work", "urgent">>},
     estimates |-> {NULL}, projects |-> Nullable({"kairo"}), schedules |-> BOOLEAN,
     updates |-> UpdateArgs({"tags", "project"},
                    [titles |-> {NULL}, descriptions |-> {NULL},
                     taglists |-> {<<>>, <<"urgent">>}, estimates |-> {NULL},
                     projects |-> Nullable({"kairo"}), positions |-> {NULL},
                     weeks |-> {NULL}, years |-> {NULL}]),
     moves |-> {<<2025, 10, 2025, 11>>, <<2025, 11, 2025, 10>>}, ids |-> Ids]

NextFilter ==
    \/ AddTask(FilterInputs)
    \/ CompleteTask
    \/ ReopenTask
    \/ DeleteTask
    \/ UpdateTask(FilterInputs)
    \/ RolloverTasks(FilterInputs)
    \/ RollbackTasks(FilterInputs)
    \/ SwapTaskPositions
    \/ Return

SpecFilter == Init /\ [][NextFilter]_vars

\* Updating inputs: every scalar parameter of update_task, as a value and as
\* None, on the first task and on an id never handed out; the other tasks
\* stand by
UpdateInputs ==
    [titles |-> {"t"}, descriptions |-> {""}, weeks |-> {Some(10)},
     years |-> {Some(2025)}, taglists |-> {<<>>}, estimates |-> {Some(3)},
     projects |-> {Some("kairo")}, schedules |-> {TRUE},
     updates |-> UpdateArgs(Fields \ {"tags"},
                    [titles |-> Nullable({"u"}), descriptions |-> Nullable({"d"}),
                     taglists |-> {<<>>}, estimates |-> Nullable({3}),
                     projects |-> Nullable({"kairo"}), positions |-> Nullable({1}),
                     weeks |-> Nullable({10}), years |-> Nullable({2025})]),
     ids |-> {1, MaxTasks + 1}]

NextUpdate ==
    \/ AddTask(UpdateInputs)
    \/ UpdateTask(UpdateInputs)
    \/ Return

SpecUpdate == Init /\ [][NextUpdate]_vars

\* Failing inputs: lists of tag names that hold None after a name
AtomicInputs ==
    [titles |-> {"t"}, descriptions |-> {""}, weeks |-> {NULL},
     years |-> {NULL}, taglists |-> {<<"work">>, <<"work", NoneTag>>},
     estimates |-> {NULL}, projects |-> {NULL}, schedules |-> BOOLEAN,
     updates |-> UpdateArgs({"tags", "project"},
                    [titles |-> {NULL}, descriptions |-> {NULL},
                     taglists |-> {<<>>, <<"urgent">>, <<"urgent", NoneTag>>},
                     estimates |-> {NULL}, projects |-> Nullable({"kairo"}),
                     positions |-> {NULL}, weeks |-> {NULL}, years |-> {NULL}]),
     ids |-> Ids]

NextAtomic ==
    \/ AddTask(AtomicInputs)
    \/ UpdateTask(AtomicInputs)
    \/ DeleteTask
    \/ Return

SpecAtomic == Init /\ [][NextAtomic]_vars

\* the week calls, on every ISO week of the calendar years
GetNextWeek ==
    \E year \in CalendarYears : \E week \in 1..weeks_in_year(year) :
        /\ last = Idle
        /\ last' = Returned("get_next_week", [year |-> year, week |-> week],
                            get_next_week(year, week))
        /\ UNCHANGED <<tasks, seq, tags, tag_seq, task_tags, clock, migrations,
                       week_notnull, issued, before, inflight>>

ActionPrevWeek ==
    \E year \in CalendarYears : \E week \in 1..weeks_in_year(year) :
        /\ last = Idle
        /\ last' = Returned("action_prev_week", [year |-> year, week |-> week],
                            action_prev_week(year, week))
        /\ UNCHANGED <<tasks, seq, tags, tag_seq, task_tags, clock, migrations,
                       week_notnull, issued, before, inflight>>

NextWeek ==
    \/ GetNextWeek
    \/ ActionPrevWeek
    \/ Return

SpecWeek == Init /\ [][NextWeek]_vars

\* add_task of a second process on the same file, in its two steps; the
\* calls of the first process run between them
AddTaskRead(I) ==
    \E title \in I.titles, description \in I.descriptions, week \in I.weeks,
       year \in I.years, tgs \in I.taglists, estimate \in I.estimates,
       project \in I.projects, schedule \in I.schedules :
        add_task_read(title, description, week, year, tgs, estimate, project, schedule)

AddTaskInsert == last = Idle /\ add_task_insert

\* Racing inputs: tasks for the current week, the week after it and the Inbox
RaceInputs ==
    [titles |-> {"t"}, descriptions |-> {""}, weeks |-> {Some(10), Some(11)},
     years |-> {Some(2025)}, taglists |-> {<<>>}, estimates |-> {NULL},
     projects |-> {NULL}, schedules |-> BOOLEAN]

NextRace ==
    \/ AddTask(RaceInputs)
    \/ AddTaskRead(RaceInputs)
    \/ AddTaskInsert
    \/ Return

SpecRace == Init /\ [][NextRace]_vars

\* swap_task_positions between two different tasks of one bucket; the task
\* list calls it on two rows of the table, which shows one bucket
SwapInBucket ==
    \E task_id1 \in DOMAIN tasks, task_id2 \in DOMAIN tasks :
        /\ last = Idle
        /\ task_id1 # task_id2
        /\ tasks[task_id1].week = tasks[task_id2].week
        /\ tasks[task_id1].year = tasks[task_id2].year
        /\ swap_task_positions(task_id1, task_id2)

\* Ordering inputs: tasks for every week and year argument and the Inbox
OrderInputs ==
    [titles |-> {"t"}, descriptions |-> {""}, weeks |-> Nullable(Weeks),
     years |-> Nullable(Years), taglists |-> {<<>>}, estimates |-> {NULL},
     projects |-> {NULL}, schedules |-> BOOLEAN]

NextOrder ==
    \/ AddTask(OrderInputs)
    \/ CompleteTask
    \/ ReopenTask
    \/ DeleteTask
    \/ SwapInBucket
    \/ Return

SpecOrder == Init /\ [][NextOrder]_vars

\* the caller takes the result of the call and keeps it while it makes the
\* next call
ReturnKept ==
    /\ last # Idle
    /\ last' = Idle
    /\ before' = last
    /\ UNCHANGED <<tasks, seq, tags, tag_seq, task_tags, clock, migrations, week_notnull, issued,
                     inflight>>

\* Moving inputs: tasks for the current week, the week after it and the
\* Inbox, moved between the two weeks
MoveInputs ==
    [titles |-> {"t"}, descriptions |-> {""}, weeks |-> {Some(10), Some(11)},
     years |-> {Some(2025)}, taglists |-> {<<>>}, estimates |-> {NULL},
     projects |-> {NULL}, schedules |-> BOOLEAN,
     moves |-> Years \X Weeks \X Years \X Weeks]

NextMove ==
    \/ AddTask(MoveInputs)
    \/ CompleteTask
    \/ RolloverTasks(MoveInputs)
    \/ RollbackTasks(MoveInputs)
    \/ ReturnKept

SpecMove == Init /\ [][NextMove]_vars

\* Database() on the file of the store
OpenDatabase == last = Idle /\ create_tables

\* number of tasks in a file written before the position backfill existed
MaxLegacy == 2

\* the rows of such a file: scheduled or, once week and year may be NULL,
\* in the Inbox; position 0 (the default of the added column) or a value
\* stored earlier
LegacyRows(notnull) ==
    [title : {"t"}, description : {""}, status : {OPEN}, completed_at : {NULL},
     week : IF notnull THEN {Some(10), Some(11)} ELSE Nullable({10}),
     year : IF notnull THEN {Some(2025)} ELSE Nullable({2025}),
     created_at : 1..MaxLegacy, estimate : {NULL}, project : {NULL},
     position : {Some(0), Some(2)}]

\* Initial state: a file written by an earlier version of the store, before
\* Database() of this version has opened it.  The created_at of its rows
\* are distinct, in any order of the ids; some of the ids handed out may
\* have been deleted.
InitLegacy ==
    /\ \E k \in 0..MaxLegacy : seq = k
    /\ week_notnull \in BOOLEAN
    /\ \E ids \in SUBSET (1..seq) : tasks \in [ids -> LegacyRows(week_notnull)]
    /\ \A i \in DOMAIN tasks :
           /\ (tasks[i].week = NULL) <=> (tasks[i].year = NULL)
           /\ \A j \in DOMAIN tasks : i # j => tasks[i].created_at # tasks[j].created_at
    /\ tags = <<>>
    /\ tag_seq = 0
    /\ task_tags = {}
    /\ clock = MaxLegacy
    /\ migrations = {}
    /\ issued = 1..seq
    /\ before = Idle
    /\ inflight = NoCall
    /\ last = Idle

\* Migrating inputs: the calls that write positions and buckets
MigrateInputs ==
    [titles |-> {"t"}, descriptions |-> {""}, weeks |-> {NULL},
     years |-> {NULL}, taglists |-> {<<>>}, estimates |-> {NULL},
     projects |-> {NULL}, schedules |-> BOOLEAN,
     updates |-> UpdateArgs({"position"},
                    [titles |-> {NULL}, descriptions |-> {NULL}, taglists |-> {<<>>},
                     estimates |-> {NULL}, projects |-> {NULL},
                     positions |-> {Some(0)}, weeks |-> {NULL}, years |-> {NULL}]),
     moves |-> {<<2025, 10, 2025, 11>>, <<2025, 11, 2025, 10>>}, ids |-> Ids]

\* Database() of this version has opened the file: a call needs a Database
\* object, and the construction of one has recorded the marker
Opened == "assign_positions" \in migrations

NextMigrate ==
    \/ OpenDatabase
    \/ Opened /\ AddTask(MigrateInputs)
    \/ Opened /\ UpdateTask(MigrateInputs)
    \/ Opened /\ SwapTaskPositions
    \/ Opened /\ RolloverTasks(MigrateInputs)
    \/ Return

SpecMigrate == InitLegacy /\ [][NextMigrate]_vars

----------------------------------------------------------------------------
(* Properties of the store *)

Range(s) == {s[k] : k \in 1..Len(s)}

\* the position a Task object shows for a row: NULL reads as 0
PosOf(row) == IF row.position = NULL THEN 0 ELSE Val(row.position)

\* the rows of P that differ from the rows of the store now
Changed(P) == {i \in DOMAIN P \cap DOMAIN tasks : tasks[i] # P[i]}

\* C1: in every reachable state every stored task has week = NULL if and
\* only if year = NULL.
C1_WeekYearNullTogether ==
    \A i \in DOMAIN tasks : (tasks[i].week = NULL) <=> (tasks[i].year = NULL)

\* C2: in every reachable state a task is Completed if and only if its
\* completed_at is non-null; a new task starts Open with completed_at NULL,
\* and only complete_task and reopen_task change either field.
C2_CompletedIffStamped ==
    /\ \A i \in DOMAIN tasks :
           (tasks[i].status = COMPLETED) <=> (tasks[i].completed_at # NULL)
    /\ last.op = "add_task" =>
           /\ tasks[last.ret.id].status = OPEN
           /\ tasks[last.ret.id].completed_at = NULL
    /\ last.op \notin {"idle", "complete_task", "reopen_task"} =>
           \A i \in DOMAIN tasks \cap DOMAIN last.pre.tasks :
               /\ tasks[i].status = last.pre.tasks[i].status
               /\ tasks[i].completed_at = last.pre.tasks[i].completed_at

\* a task has been reopened while another task is Completed
C2_Witness ==
    /\ last.op = "reopen_task" /\ last.ret = TRUE
    /\ tasks[last.args.task_id].status = OPEN
    /\ \E i \in DOMAIN tasks : tasks[i].status = COMPLETED

\* C3: rollover_tasks sets (week, year) to the target on exactly the tasks
\* that were Open in the source bucket before the call, leaves every other
\* task as it was, and returns the number of tasks that were Open in the
\* source bucket.
C3_RolloverMovesOpenOnly ==
    last.op = "rollover_tasks" =>
        LET a == last.args
            P == last.pre.tasks
            moved == {i \in DOMAIN P : /\ P[i].status = OPEN
                                       /\ P[i].week = Some(a.from_week)
                                       /\ P[i].year = Some(a.from_year)}
        IN /\ DOMAIN tasks = DOMAIN P
           /\ \A i \in moved :
                  tasks[i] = [P[i] EXCEPT !.week = Some(a.to_week),
                                          !.year = Some(a.to_year)]
           /\ \A i \in DOMAIN P \ moved : tasks[i] = P[i]
           /\ last.ret = Cardinality(moved)

\* a rollover to another bucket has moved an Open task and left behind a
\* Completed task of the source bucket
C3_Witness ==
    /\ last.op = "rollover_tasks"
    /\ <<last.args.from_week, last.args.from_year>>
           # <<last.args.to_week, last.args.to_year>>
    /\ last.ret = 1
    /\ \E i \in DOMAIN tasks :
           /\ tasks[i].status = COMPLETED
           /\ InBucket(tasks[i], last.args.from_week, last.args.from_year)

\* C4: after rollover_tasks has moved the Open tasks of bucket A to a
\* different bucket B, get_week_stats(A)["open"] is the integer 0.
C4_OpenIsZeroAfterRollover ==
    (/\ last.op = "rollover_tasks"
     /\ <<last.args.from_week, last.args.from_year>>
            # <<last.args.to_week, last.args.to_year>>
     /\ last.ret >= 1)
        => get_week_stats(last.args.from_year, last.args.from_week).open = Some(0)

\* C5: complete_task on an existing Open task sets status to Completed and
\* completed_at to a timestamp and returns true; on a missing or already
\* Completed task it returns false and leaves the whole store unchanged.
C5_CompleteTask ==
    last.op = "complete_task" =>
        LET id == last.args.task_id
            P == last.pre.tasks
        IN IF id \in DOMAIN P /\ P[id].status = OPEN
           THEN /\ last.ret = TRUE
                /\ tasks[id].status = COMPLETED
                /\ tasks[id].completed_at # NULL
                /\ Changed(P) = {id}
           ELSE /\ last.ret = FALSE
                /\ Store = last.pre

\* complete_task has been called on a task that was already Completed
C5_Witness ==
    /\ last.op = "complete_task"
    /\ last.args.task_id \in DOMAIN last.pre.tasks
    /\ last.pre.tasks[last.args.task_id].status = COMPLETED
    /\ last.ret = FALSE

\* C6: reopen_task on an existing Completed task sets status to Open, clears
\* completed_at and returns true; on a missing or already Open task it
\* returns false and leaves the whole store unchanged.
C6_ReopenTask ==
    last.op = "reopen_task" =>
        LET id == last.args.task_id
            P == last.pre.tasks
        IN IF id \in DOMAIN P /\ P[id].status = COMPLETED
           THEN /\ last.ret = TRUE
                /\ tasks[id].status = OPEN
                /\ tasks[id].completed_at = NULL
                /\ Changed(P) = {id}
           ELSE /\ last.ret = FALSE
                /\ Store = last.pre

\* reopen_task has reopened a Completed task
C6_Witness ==
    /\ last.op = "reopen_task"
    /\ last.args.task_id \in DOMAIN last.pre.tasks
    /\ last.pre.tasks[last.args.task_id].status = COMPLETED
    /\ last.pre.tasks[last.args.task_id].completed_at # NULL
    /\ last.ret = TRUE

\* the tasks that were in the bucket of the task add_task has just stored
C7_Peers ==
    {i \in DOMAIN last.pre.tasks :
        /\ last.pre.tasks[i].week = tasks[last.ret.id].week
        /\ last.pre.tasks[i].year = tasks[last.ret.id].year}

\* C7: add_task gives the new task position 1 + the maximum position among
\* the tasks already in the bucket it ends up in, and 1 when that bucket is
\* empty; tasks of other buckets do not influence the value.
C7_AddTaskPosition ==
    last.op = "add_task" =>
        /\ tasks[last.ret.id].position =
               IF C7_Peers = {} THEN Some(1)
               ELSE Some(1 + SetMax({PosOf(last.pre.tasks[i]) : i \in C7_Peers}))
        /\ last.ret.position = Val(tasks[last.ret.id].position)

\* add_task has stored a task in a bucket that already held a task
C7_Witness ==
    /\ last.op = "add_task"
    /\ C7_Peers # {}
    /\ \E i \in C7_Peers : tasks[last.ret.id].position = Some(1 + PosOf(last.pre.tasks[i]))

\* C8: add_task with schedule=false stores week = NULL and year = NULL
\* whatever was supplied; with schedule=true it stores the supplied week and
\* year, or the current ISO week and year when they are not supplied.
C8_AddTaskSchedule ==
    last.op = "add_task" =>
        LET new == tasks[last.ret.id]
            a == last.args
        IN IF a.schedule
           THEN /\ new.week = IF a.week # NULL THEN a.week
                              ELSE Some(get_current_week[2])
                /\ new.year = IF a.year # NULL THEN a.year
                              ELSE Some(get_current_week[1])
           ELSE new.week = NULL /\ new.year = NULL

\* C9: list_tasks(show_all=true) returns exactly the tasks whose week and
\* year are both non-null, whatever week and year are passed;
\* list_tasks(week, year) returns exactly the tasks of that bucket;
\* list_inbox_tasks() returns exactly the tasks whose week and year are both
\* NULL; a task added with schedule=false is in list_inbox_tasks() and not
\* in list_tasks(show_all=true).
C9_Listings ==
    /\ \A week \in Nullable(Weeks), year \in Nullable(Years) :
           LET l == list_tasks(week, year, NULL, TRUE)
           IN /\ Range(l) = {i \in DOMAIN tasks :
                                tasks[i].week # NULL /\ tasks[i].year # NULL}
              /\ Len(l) = Cardinality(Range(l))
    /\ \A week \in Weeks, year \in Years :
           LET l == list_tasks(Some(week), Some(year), NULL, FALSE)
           IN /\ Range(l) = {i \in DOMAIN tasks : /\ tasks[i].week = Some(week)
                                                  /\ tasks[i].year = Some(year)}
              /\ Len(l) = Cardinality(Range(l))
    /\ LET l == list_inbox_tasks(NULL)
       IN /\ Range(l) = {i \in DOMAIN tasks :
                            tasks[i].week = NULL /\ tasks[i].year = NULL}
          /\ Len(l) = Cardinality(Range(l))
    /\ (last.op = "add_task" /\ ~last.args.schedule) =>
           /\ last.ret.id \in Range(list_inbox_tasks(NULL))
           /\ last.ret.id \notin Range(list_tasks(NULL, NULL, NULL, TRUE))

\* a task has been added with schedule=false and a week and year supplied,
\* next to a scheduled task
C9_Witness ==
    /\ last.op = "add_task"
    /\ ~last.args.schedule
    /\ last.args.week # NULL /\ last.args.year # NULL
    /\ list_tasks(NULL, NULL, NULL, TRUE) # <<>>
    /\ last.ret.id \in Range(list_inbox_tasks(NULL))

\* the subsequence of the ids of l that satisfy Keep
Filtered(l, Keep(_)) == SelectSeq(l, Keep)

\* C10: for every store state and all arguments, list_tasks_by_tag returns
\* the tasks of list_tasks with the same arguments whose tag set contains
\* the tag, in the same order, and list_tasks_by_project those whose project
\* is the project; with show_all=true neither returns an Inbox task.
C10_FilteredListings ==
    \A week \in Nullable(Weeks), year \in Nullable(Years),
       status \in Nullable({OPEN, COMPLETED}), show_all \in BOOLEAN :
        LET l == list_tasks(week, year, status, show_all)
        IN /\ \A tag \in {"urgent", "work"} :
                  LET HasTag(i) == tag \in TaskTagSet(i)
                  IN list_tasks_by_tag(tag, week, year, status, show_all)
                         = Filtered(l, HasTag)
           /\ \A project \in {"kairo"} :
                  LET HasProject(i) == tasks[i].project = Some(project)
                  IN list_tasks_by_project(project, week, year, status, show_all)
                         = Filtered(l, HasProject)

\* the updatable scalar columns of a task
ScalarFields == Fields \ {"tags"}

\* the value of column f of a row, as an Optional
Column(row, f) == IF f \in {"title", "description"} THEN Some(row[f]) ELSE row[f]

\* C11: update_task on a stored task leaves every column whose parameter is
\* not supplied as it was, gives every supplied column (title, description,
\* estimate, project, position, week, year) the supplied value, NULL
\* included, and modifies no other task.
C11_UpdateChangesPassedFields ==
    (last.op = "update_task" /\ last.args.task_id \in DOMAIN last.pre.tasks) =>
        LET a == last.args.a
            id == last.args.task_id
            P == last.pre.tasks
        IN /\ DOMAIN tasks = DOMAIN P
           /\ \A i \in DOMAIN P \ {id} : tasks[i] = P[i]
           /\ \A f \in ScalarFields :
                  Column(tasks[id], f) = IF f \in a.touched THEN a[f]
                                         ELSE Column(P[id], f)
           /\ \A f \in {"status", "created_at", "completed_at"} :
                  tasks[id][f] = P[id][f]

\* the tag names of task i in the store as the last call found it
PreTagSet(i) ==
    {n \in DOMAIN last.pre.tags : <<i, last.pre.tags[n]>> \in last.pre.task_tags}

\* C12: after update_task on a stored task with tags supplied, the task's
\* tag set is exactly the set of the supplied names, every supplied name is
\* a tag of the store, and the tag set of every other task is as it was;
\* with tags not supplied the task's tag set is as it was.
C12_UpdateReplacesTags ==
    (last.op = "update_task" /\ last.args.task_id \in DOMAIN last.pre.tasks) =>
        LET a == last.args.a
            id == last.args.task_id
        IN /\ "tags" \in a.touched =>
                  /\ TaskTagSet(id) = Range(a.tags)
                  /\ Range(a.tags) \subseteq DOMAIN tags
           /\ "tags" \notin a.touched => TaskTagSet(id) = PreTagSet(id)
           /\ \A i \in DOMAIN tasks \ {id} : TaskTagSet(i) = PreTagSet(i)

\* update_task has replaced the tags work and urgent of a task by urgent
\* alone, next to another task tagged work and urgent
C12_Witness ==
    /\ last.op = "update_task"
    /\ last.args.task_id \in DOMAIN tasks
    /\ "tags" \in last.args.a.touched
    /\ last.args.a.tags = <<"urgent">>
    /\ PreTagSet(last.args.task_id) = {"work", "urgent"}
    /\ TaskTagSet(last.args.task_id) = {"urgent"}
    /\ \E i \in DOMAIN tasks \ {last.args.task_id} : TaskTagSet(i) = {"work", "urgent"}

\* C13: update_task returns true if and only if a task with the id is
\* stored, whichever parameters are supplied (scalar ones only, tags only,
\* both, none), and a call for an id that is not stored leaves the whole
\* store as it was.
C13_UpdateReturnsExists ==
    last.op = "update_task" =>
        /\ last.ret = (last.args.task_id \in DOMAIN last.pre.tasks)
        /\ last.args.task_id \notin DOMAIN last.pre.tasks => Store = last.pre

\* C14: delete_task on a stored task removes the task and every task_tags
\* row of its id and returns true; on an id that is not stored it returns
\* false and leaves the whole store as it was.
C14_DeleteTask ==
    last.op = "delete_task" =>
        LET id == last.args.task_id
        IN IF id \in DOMAIN last.pre.tasks
           THEN /\ last.ret = TRUE
                /\ id \notin DOMAIN tasks
                /\ \A tt \in task_tags : tt[1] # id
           ELSE /\ last.ret = FALSE
                /\ Store = last.pre

\* get_all_tags(): SELECT name FROM tags
get_all_tags == DOMAIN tags

\* C15: no call removes a name from get_all_tags(); a name enters
\* get_all_tags() only in an add_task or update_task call that is passed the
\* name and attaches it to a stored task.
C15_TagsNeverShrink ==
    last.op # "idle" =>
        /\ DOMAIN last.pre.tags \subseteq get_all_tags
        /\ \A n \in get_all_tags \ DOMAIN last.pre.tags :
               /\ last.op \in {"add_task", "update_task"}
               /\ \E i \in DOMAIN tasks : n \in TaskTagSet(i)

\* C16: swap_task_positions on two stored tasks, of one bucket or of two,
\* gives each the position the other had, leaves every other column of the
\* two and every other task as they were, and returns true; when either id
\* is not stored it returns false and leaves the whole store as it was.
C16_SwapTaskPositions ==
    last.op = "swap_task_positions" =>
        LET id1 == last.args.task_id1
            id2 == last.args.task_id2
            P == last.pre.tasks
        IN IF id1 \in DOMAIN P /\ id2 \in DOMAIN P
           THEN /\ last.ret = TRUE
                /\ DOMAIN tasks = DOMAIN P
                /\ tasks[id1] = [P[id1] EXCEPT !.position = P[id2].position]
                /\ tasks[id2] = [P[id2] EXCEPT !.position = P[id1].position]
                /\ \A i \in DOMAIN P \ {id1, id2} : tasks[i] = P[i]
                /\ Store = [last.pre EXCEPT !.tasks = tasks]
           ELSE /\ last.ret = FALSE
                /\ Store = last.pre

\* swap_task_positions has exchanged two different positions of tasks of
\* two different buckets
C16_Witness ==
    /\ last.op = "swap_task_positions"
    /\ last.ret = TRUE
    /\ last.pre.tasks[last.args.task_id1].position
           # last.pre.tasks[last.args.task_id2].position
    /\ tasks[last.args.task_id1].week # tasks[last.args.task_id2].week
    /\ tasks[last.args.task_id1].position
           = last.pre.tasks[last.args.task_id2].position

\* the listing that shows the bucket of a row: list_tasks of its week and
\* year, list_inbox_tasks for a row of the Inbox, none for a row with one of
\* week and year NULL
ListingOf(row) ==
    IF row.week # NULL /\ row.year # NULL
    THEN list_tasks(row.week, row.year, NULL, FALSE)
    ELSE IF InInbox(row) THEN list_inbox_tasks(NULL) ELSE <<>>

\* ids i and j are next to each other in the listing l
Adjacent(l, i, j) == \E k \in 1..(Len(l) - 1) : {l[k], l[k + 1]} = {i, j}

\* C17: after swap_task_positions on two different tasks that are next to
\* each other in the listing of one bucket, the two tasks have distinct
\* positions.
C17_SwapLeavesDistinct ==
    (/\ last.op = "swap_task_positions"
     /\ last.ret = TRUE
     /\ last.args.task_id1 # last.args.task_id2) =>
        LET r1 == tasks[last.args.task_id1]
            r2 == tasks[last.args.task_id2]
        IN (/\ r1.week = r2.week /\ r1.year = r2.year
            /\ Adjacent(ListingOf(r1), last.args.task_id1, last.args.task_id2))
               => r1.position # r2.position

\* the tasks table T after SET week = ?, year = ? on its rows that satisfy
\* Match for the arguments a
MovedBy(Match(_, _, _), T, a) ==
    [i \in DOMAIN T |-> IF Match(T[i], a.from_year, a.from_week)
                        THEN [T[i] EXCEPT !.week = Some(a.to_week),
                                          !.year = Some(a.to_year)]
                        ELSE T[i]]

\* the number of rows of T that satisfy Match for the arguments a
CountBy(Match(_, _, _), T, a) ==
    Cardinality({i \in DOMAIN T : Match(T[i], a.from_year, a.from_week)})

\* C18: from every store state and for all arguments, rollback_tasks leaves
\* the store and returns the count that rollover_tasks' statement gives for
\* the same state and arguments, and rollover_tasks those that
\* rollback_tasks' statement gives.
C18_RollbackIsRollover ==
    /\ last.op = "rollback_tasks" =>
           /\ tasks = MovedBy(rollover_match, last.pre.tasks, last.args)
           /\ last.ret = CountBy(rollover_match, last.pre.tasks, last.args)
           /\ Store = [last.pre EXCEPT !.tasks = tasks]
    /\ last.op = "rollover_tasks" =>
           /\ tasks = MovedBy(rollback_match, last.pre.tasks, last.args)
           /\ last.ret = CountBy(rollback_match, last.pre.tasks, last.args)
           /\ Store = [last.pre EXCEPT !.tasks = tasks]

\* rollback_tasks has moved an Open task to another bucket and left a
\* Completed task in the source bucket
C18_Witness ==
    /\ last.op = "rollback_tasks"
    /\ <<last.args.from_week, last.args.from_year>>
           # <<last.args.to_week, last.args.to_year>>
    /\ last.ret = 1
    /\ tasks # last.pre.tasks
    /\ \E i \in DOMAIN tasks :
           /\ tasks[i].status = COMPLETED
           /\ InBucket(tasks[i], last.args.from_week, last.args.from_year)

\* C19: once the marker 'assign_positions' is recorded, Database() on the
\* store, after whatever add_task, update_task, swap_task_positions and
\* rollover_tasks calls, leaves every task, its position included, and the
\* rest of the store as the calls left them.
C19_BackfillRunsOnce ==
    (last.op = "Database" /\ "assign_positions" \in last.pre.migrations) =>
        /\ tasks = last.pre.tasks
        /\ Store = last.pre

\* Database() has opened a store that holds the marker and whose positions
\* are not those the backfill would assign
C19_Witness ==
    /\ last.op = "Database"
    /\ "assign_positions" \in last.pre.migrations
    /\ tasks # assign_positions(tasks)
    /\ \E i \in DOMAIN tasks : \E j \in DOMAIN tasks :
           /\ i # j
           /\ tasks[i].week = tasks[j].week /\ tasks[i].year = tasks[j].year

\* the ids of the tasks in the bucket of task i
BucketOf(i) ==
    {j \in DOMAIN tasks : tasks[j].week = tasks[i].week /\ tasks[j].year = tasks[i].year}

\* C20: after Database() on a store without the marker, the N tasks of every
\* bucket, the Inbox included, hold the positions 1..N, once each and in
\* ascending created_at order, the marker is recorded, and no task is added,
\* removed or changed in another column than position.
C20_BackfillAssignsPositions ==
    (last.op = "Database" /\ "assign_positions" \notin last.pre.migrations) =>
        /\ "assign_positions" \in migrations
        /\ DOMAIN tasks = DOMAIN last.pre.tasks
        /\ \A i \in DOMAIN tasks :
               /\ tasks[i] = [last.pre.tasks[i] EXCEPT !.position = tasks[i].position]
               /\ tasks[i].position # NULL
               /\ Val(tasks[i].position) \in 1..Cardinality(BucketOf(i))
               /\ \A j \in BucketOf(i) :
                      tasks[j].created_at < tasks[i].created_at
                          => Val(tasks[j].position) < Val(tasks[i].position)
        /\ tags = last.pre.tags /\ task_tags = last.pre.task_tags

\* Database() has opened a store without the marker in which a bucket holds
\* two tasks, the one with the larger id created first
C20_Witness ==
    /\ last.op = "Database"
    /\ "assign_positions" \notin last.pre.migrations
    /\ \E i \in DOMAIN tasks : \E j \in BucketOf(i) :
           /\ i < j
           /\ tasks[j].created_at < tasks[i].created_at
           /\ tasks[j].position = Some(1) /\ tasks[i].position = Some(2)
           /\ last.pre.tasks[i].position = last.pre.tasks[j].position

\* C21: every id add_task returns is different from every id add_task has
\* returned before for the store, the ids of deleted tasks included, and no
\* call changes the id of a stored task: a call stores no new id but the
\* one add_task returns, and a row that stays keeps its id.
C21_IdsNeverReused ==
    last.op # "idle" =>
        /\ last.op = "add_task" => last.ret.id \notin last.pre.issued
        /\ DOMAIN tasks \ DOMAIN last.pre.tasks
               \subseteq (IF last.op = "add_task" THEN {last.ret.id} ELSE {})
        /\ \A i \in DOMAIN tasks \cap DOMAIN last.pre.tasks :
               tasks[i].created_at = last.pre.tasks[i].created_at

\* C22: when a call fails part-way, the store the calls that follow see is
\* the store as the failed call found it.
C22_AllOrNothing ==
    (last.op # "idle" /\ "exc" \in DOMAIN last) => Store = last.pre

\* the estimate of a row, NULL counted as 0
EstimateOf(row) == IF row.estimate = NULL THEN 0 ELSE Val(row.estimate)

\* C23: for every (year, week), a bucket without tasks included,
\* get_week_stats returns integers: total is the number of tasks of the
\* bucket, completed and open the numbers of its Completed and Open tasks,
\* total = completed + open, and the three estimates are the sums of the
\* estimates of the same tasks, a NULL estimate counted as 0; an Inbox task
\* contributes to none of them.
C23_WeekStats ==
    \A year \in Years, week \in Weeks :
        LET s == get_week_stats(year, week)
            rows == {i \in DOMAIN tasks : /\ tasks[i].week = Some(week)
                                          /\ tasks[i].year = Some(year)}
            done == {i \in rows : tasks[i].status = COMPLETED}
            open == {i \in rows : tasks[i].status = OPEN}
            est == [i \in rows |-> EstimateOf(tasks[i])]
        IN /\ s.total = Cardinality(rows)
           /\ s.completed = Some(Cardinality(done))
           /\ s.open = Some(Cardinality(open))
           /\ s.total_estimate = SumOver(est, rows)
           /\ s.completed_estimate = SumOver(est, done)
           /\ s.open_estimate = SumOver(est, open)
           /\ s.total_estimate = s.completed_estimate + s.open_estimate

\* C24: after add_task with the tag names T, whatever calls came before,
\* get_task of the new id has as tags exactly the distinct names of T in
\* ascending lexicographic order.
C24_TagsRoundTrip ==
    last.op = "add_task" =>
        LET Passed(n) == n \in Range(last.args.tags)
        IN /\ get_task(last.ret.id) # NULL
           /\ Val(get_task(last.ret.id)).tags = SelectSeq(TagNames, Passed)

\* C25: the Task add_task returns equals, field for field, the Task that
\* get_task of its id returns immediately afterwards.
C25_AddTaskReturnsStored ==
    last.op = "add_task" => get_task(last.ret.id) = Some(last.ret)

\* C26: for every ISO (year, week) of the calendar years, weeks 1, 52 and
\* 53 included, the week after the week before it is (year, week), and the
\* week before the week after it is (year, week).
C26_WeekRoundTrip ==
    /\ last.op = "action_prev_week" =>
           get_next_week(last.ret[1], last.ret[2]) = <<last.args.year, last.args.week>>
    /\ last.op = "get_next_week" =>
           action_prev_week(last.ret[1], last.ret[2]) = <<last.args.year, last.args.week>>

\* the week before week 1 of a year is week 53 of the year before
C26_Witness ==
    /\ last.op = "action_prev_week"
    /\ last.args.week = 1
    /\ last.ret = <<last.args.year - 1, 53>>

\* the tasks that share the bucket and the position of the task add_task has
\* just stored
C27_Twins ==
    {i \in DOMAIN tasks \ {last.ret.id} :
        /\ tasks[i].week = tasks[last.ret.id].week
        /\ tasks[i].year = tasks[last.ret.id].year
        /\ tasks[i].position = tasks[last.ret.id].position}

\* C27: a task that shares the bucket and the position of the task add_task
\* has just stored was stored by another process between the call's read of
\* the maximum position and its insert; a call that no other call
\* interleaves with stores no such pair.
C27_AddTaskRace ==
    last.op = "add_task" =>
        /\ \A i \in C27_Twins : i \notin DOMAIN last.pre.tasks
        /\ DOMAIN tasks \ {last.ret.id} = DOMAIN last.pre.tasks => C27_Twins = {}

\* two add_task calls for one bucket have interleaved and both tasks are
\* stored with the same position
C27_Witness ==
    /\ last.op = "add_task"
    /\ C27_Twins # {}
    /\ \A i \in C27_Twins : tasks[i].created_at > tasks[last.ret.id].created_at

\* C28: in every reachable state every stored task is in exactly one of
\* list_inbox_tasks() and list_tasks(show_all=true).
C28_OneListing ==
    \A i \in DOMAIN tasks :
        (i \in Range(list_inbox_tasks(NULL)))
            <=> (i \notin Range(list_tasks(NULL, NULL, NULL, TRUE)))

\* C29: from an empty store, after any sequence of add_task, complete_task,
\* reopen_task, delete_task and swap_task_positions between two tasks of the
\* same bucket, no two tasks of one bucket have the same position.
C29_DistinctPositions ==
    \A i \in DOMAIN tasks : \A j \in BucketOf(i) \ {i} :
        tasks[i].position # tasks[j].position

\* two tasks of one bucket, one of them completed, have been swapped
C29_Witness ==
    /\ last.op = "swap_task_positions"
    /\ last.ret
    /\ last.args.task_id2 \in BucketOf(last.args.task_id1) \ {last.args.task_id1}
    /\ tasks[last.args.task_id1].status = COMPLETED
    /\ tasks[last.args.task_id2].status = OPEN

\* rollback_tasks(B -> A) is running and the call before it was
\* rollover_tasks(A -> B), with A # B and no Open task in B before it
C30_RoundTripCalled ==
    /\ last.op = "rollback_tasks"
    /\ before.op = "rollover_tasks"
    /\ last.args.from_year = before.args.to_year
    /\ last.args.from_week = before.args.to_week
    /\ last.args.to_year = before.args.from_year
    /\ last.args.to_week = before.args.from_week
    /\ <<before.args.from_year, before.args.from_week>>
           # <<before.args.to_year, before.args.to_week>>
    /\ \A i \in DOMAIN before.pre.tasks :
           ~(/\ InBucket(before.pre.tasks[i], before.args.to_week, before.args.to_year)
             /\ before.pre.tasks[i].status = OPEN)

\* C30: for two different buckets A and B where B holds no Open task,
\* rollover_tasks(A -> B) immediately followed by rollback_tasks(B -> A)
\* restores the week, year and position of every task, and both calls return
\* the same count.
C30_RoundTrip ==
    C30_RoundTripCalled =>
        /\ DOMAIN tasks = DOMAIN before.pre.tasks
        /\ \A i \in DOMAIN tasks :
               /\ tasks[i].week = before.pre.tasks[i].week
               /\ tasks[i].year = before.pre.tasks[i].year
               /\ tasks[i].position = before.pre.tasks[i].position
        /\ last.ret = before.ret

\* the round trip moved a task there and back, past a Completed task of B
C30_Witness ==
    /\ C30_RoundTripCalled
    /\ last.ret >= 1
    /\ Changed(last.pre.tasks) # {}
    /\ \E i \in DOMAIN tasks :
           /\ InBucket(tasks[i], last.args.from_week, last.args.from_year)
           /\ tasks[i].status = COMPLETED

====
